---- MODULE Spec2Model ----
(***************************************************************************)
(* Model of the SillyTavern-Nicknames extension: the scoped nickname       *)
(* engine (handleNickname), the macro functions, and the character-rename  *)
(* event handlers.  The repository holds several revisions of the engine;  *)
(* the variable rev says which one is running.                             *)
(*                                                                         *)
(* JavaScript values are modelled as follows.  Strings are TLA+ strings.   *)
(* undefined and null are the two reserved strings Undefined and Null,     *)
(* which are no nickname, key or scope token.  A plain object is a         *)
(* function whose DOMAIN is the set of its own property keys.  The host's  *)
(* extension_settings object holds, under the key of the extension, a      *)
(* reference to the object the module variable settings refers to, or has  *)
(* no such key.                                                            *)
(***************************************************************************)
EXTENDS Integers, Sequences, FiniteSets, TLC

VARIABLES rev, extension_settings, settings, chatMetadata, charKey, user_avatar

vars == <<rev, extension_settings, settings, chatMetadata, charKey, user_avatar>>

-----------------------------------------------------------------------------
(* Bounds of the model *)

\* nicknames are set while fewer than MaxNicknames are stored
MaxNicknames == 2

-----------------------------------------------------------------------------
(* JavaScript values *)

Undefined == "{undefined}"
Null == "{null}"

\* a test that takes the empty string for a value
NotNullish(v) == v \notin {Undefined, Null}

\* if (v): a string is truthy unless it is empty; undefined and null are falsy
Truthy(v) == v \notin {Undefined, Null, ""}

\* the property key a value turns into when used as obj[key]
PropertyKey(k) == IF k = Undefined THEN "undefined" ELSE k

EmptyObject == [k \in {} |-> Undefined]

\* obj[key]
Get(obj, key) ==
    IF PropertyKey(key) \in DOMAIN obj THEN obj[PropertyKey(key)] ELSE Undefined

\* key in obj: the object has the property
Has(obj, key) == PropertyKey(key) \in DOMAIN obj

\* obj[key] = v: the property key with v, and the other properties of obj
Put(obj, key, v) == (PropertyKey(key) :> v) @@ obj

\* a delete that leaves the property
DeleteNothing(obj, key) == obj

\* delete obj[key]
Delete(obj, key) ==
    [k \in (DOMAIN obj) \ {PropertyKey(key)} |-> obj[k]] @@ EmptyObject

\* the vertical tab, which has no escape in a string
VT == ""

\* the no-break space U+00A0
NBSP == " "

\* the byte order mark U+FEFF
BOM == "﻿"

\* the ogham space mark U+1680
OGHAM == " "

\* the white space and line terminators String.prototype.trim removes:
\* space, tab, line feed, carriage return, form feed, vertical tab, the
\* no-break space, the byte order mark and the ogham space mark; trim
\* removes U+2000 to U+200A, U+2028, U+2029, U+202F, U+205F and U+3000 as
\* well, which cannot be written in a string of this module
IsWhiteSpace(c) ==
    c \in {" ", "\t", "\n", "\r", "\f", VT, NBSP, BOM, OGHAM}

RECURSIVE TrimStart(_)
TrimStart(s) ==
    IF Len(s) = 0 THEN s
    ELSE IF IsWhiteSpace(SubSeq(s, 1, 1)) THEN TrimStart(SubSeq(s, 2, Len(s)))
    ELSE s

RECURSIVE TrimEnd(_)
TrimEnd(s) ==
    IF Len(s) = 0 THEN s
    ELSE IF IsWhiteSpace(SubSeq(s, Len(s), Len(s)))
         THEN TrimEnd(SubSeq(s, 1, Len(s) - 1))
    ELSE s

\* String.prototype.trim
trim(s) == TrimEnd(TrimStart(s))

\* a normalisation that leaves the value as it was given
NoTrim(value) == IF value \in {Undefined, Null} THEN Undefined ELSE value

\* value?.trim()
OptionalTrim(value) ==
    IF value \in {Undefined, Null} THEN Undefined ELSE trim(value)

-----------------------------------------------------------------------------
(* Constants of the program and of its host *)

SETTNGS_NAME == "nicknames"

GLOBAL == "global"
CHAR == "char"
CHAT == "chat"
NONE == "none"

\* Object.values(ContextLevel)
ContextLevel == {GLOBAL, CHAR, CHAT, NONE}

\* getContext().name1 and getContext().name2: the default names
name1 == "User"
name2 == "Character"

\* the revision before index.js: handleNickname returns strings
Older == "part_001:247"

\* the first revision: constant macros and no handleNickname
Initial == "part_001:480"

\* the revisions of the extension
Revisions == {"part_001", "part_002", "index", Older, Initial}

\* the revision defines handleNickname and the slash commands
HasEngine(r) == r # Initial

\* the revision keeps the nicknames of the conversation under the role and
\* those of a role in the global sub-map named after the other role
KeyedByRole(r) == r \in {"index", Older}

\* the scopes a revision accepts: Object.values(ContextLevel), or the list
\* ['chat', 'char', 'global'] of the older revision
KnownContexts(r) == IF r = Older THEN {CHAT, CHAR, GLOBAL} ELSE ContextLevel

\* the avatar keys of the host's characters and personas
Avatars == {"A", "B"}
Personas == {"P", "Q"}

\* the arguments the calls are explored with
Types == {"user", "char"}
Nicknames == {" ", " N "}
Values == {Null} \cup Nicknames
Contexts == {Null, GLOBAL, CHAR, CHAT, NONE, "bogus"}

-----------------------------------------------------------------------------
(* Results of handleNickname *)

\* { context, name }
NicknameResult(context, name) ==
    [kind |-> "object", context |-> context, name |-> name]

\* return null
NullResult == [kind |-> "null", context |-> Undefined, name |-> Undefined]

\* a revision returning the stored value itself: it has no properties, the
\* value is kept in name and kind tells it apart from a result object
BareResult(v) == [kind |-> "bare", context |-> Undefined, name |-> v]

\* result?.name
OptionalName(result) ==
    IF result.kind = "object" THEN result.name ELSE Undefined

\* result.name
NameOf(result) ==
    IF result.kind = "object" THEN result.name
    ELSE IF result.kind = "bare" THEN Undefined
    ELSE "<TypeError>"

NoError == "<no error>"
UnknownContext == "Unknown context"
NoContext == "Can't set nickname or reset it without a context"

\* the message of the older revision
NoContextOlder == "Can't set nickanme or reset it without a context"

\* the message of the error thrown for a value or reset without a scope
NoContextOf(r) == IF r = Older THEN NoContextOlder ELSE NoContext

\* a function the revision does not define is called
ReferenceError == "ReferenceError"

\* what a set or a read at a level returns: { context, name }, or the name
\* itself in the older revision
LevelResult(r, context, name) ==
    IF r = Older THEN BareResult(name) ELSE NicknameResult(context, name)

\* what a reset and a rejected call return: null, or '' in the older revision
EmptyResult(r) == IF r = Older THEN BareResult("") ELSE NullResult

\* a property of undefined is read, set or deleted
TypeError == "TypeError"

-----------------------------------------------------------------------------
(* Identity keys *)

\* getPersonaKey()
getPersonaKey(avatar) == avatar

\* a key that is the same for every character
getCharKeyOfFirst(key) == "A"

\* getCharKey(): characters[characterId]?.avatar, undefined with no character
getCharKey(key) == key

-----------------------------------------------------------------------------
(* handleNickname *)

\* forContext && !Object.values(ContextLevel).includes(forContext)
IsUnknownContext(r, forContext) ==
    Truthy(forContext) /\ forContext \notin KnownContexts(r)

\* a check that forgets the reset option
IsMissingContextValueOnly(value, forContext, reset) ==
    ~Truthy(forContext) /\ Truthy(value)

\* !forContext && (value || reset)
IsMissingContext(value, forContext, reset) ==
    ~Truthy(forContext) /\ (Truthy(value) \/ reset)

\* the sub-map of the chat mapping a role's nickname is kept in
ChatTypeKey(r, type) ==
    IF KeyedByRole(r)
    THEN (IF type = "char" THEN "personas" ELSE "chars")
    ELSE (IF type = "char" THEN "chars" ELSE "personas")

\* the key of a role's nickname in that sub-map
ChatNicknameKey(r, type, ck, pk) ==
    IF KeyedByRole(r) THEN type
    ELSE (IF type = "char" THEN getCharKey(ck) ELSE getPersonaKey(pk))

\* what a read at chat level returns
ChatReadResult(r, stored) ==
    IF r = "part_001" THEN NicknameResult(CHAT, stored) ELSE BareResult(stored)

\* the inner key at character level
CharNicknameKey(r, type, ck, pk) ==
    IF r = "index"
    THEN (IF type = "char" THEN getCharKey(ck) ELSE getPersonaKey(pk))
    ELSE getPersonaKey(pk)

\* a rejection that forgets the reset option
IsCharLevelRejectedOnSet(type, value, reset) ==
    type = "char" /\ Truthy(value)

\* type === 'char' && (value || reset)
IsCharLevelRejected(type, value, reset) ==
    type = "char" /\ (Truthy(value) \/ reset)

\* the sub-maps of the global mapping taken for one another
GlobalTypeKeySwapped(r, type) ==
    IF type = "char" THEN "personas" ELSE "chars"

\* the sub-map of the global mapping a role's nickname is kept in
GlobalTypeKey(r, type) ==
    IF KeyedByRole(r)
    THEN (IF type = "char" THEN "personas" ELSE "chars")
    ELSE (IF type = "char" THEN "chars" ELSE "personas")

\* the key of a role's nickname in that sub-map
GlobalNicknameKey(type, ck, pk) ==
    IF type = "char" THEN getCharKey(ck) ELSE getPersonaKey(pk)

\* settings.mappings.char[charKey]?.personas[nicknameKey]
CharLevelGet(s, ck, nicknameKey) ==
    IF ~Has(s.mappings.char, ck) THEN Undefined
    ELSE Get(Get(s.mappings.char, ck).personas, nicknameKey)

\* a call that starts with the conversation persist triggered
RunningSaved(s, cm) ==
    [settings |-> s, chatMetadata |-> cm, returned |-> FALSE,
     result |-> NullResult, error |-> NoError,
     saveChat |-> 1, saveSettings |-> 0, warning |-> FALSE]

\* the state and the answer of a call that has not returned yet
Running(s, cm) ==
    [settings |-> s, chatMetadata |-> cm, returned |-> FALSE,
     result |-> NullResult, error |-> NoError,
     saveChat |-> 0, saveSettings |-> 0, warning |-> FALSE]

Return(o, result) == [o EXCEPT !.returned = TRUE, !.result = result]

Throw(o, error) == [o EXCEPT !.returned = TRUE, !.error = error]

\* if (forContext === ContextLevel.CHAT || !forContext) { ... }
ChatLevel(r, o, ck, pk, type, value, forContext, reset) ==
    IF ~(forContext = CHAT \/ ~Truthy(forContext)) THEN o
    ELSE
    LET \* chatMetadata[SETTNGS_NAME] ??= { personas: {}, chars: {} }
        cm == IF ~Has(o.chatMetadata, SETTNGS_NAME)
              THEN Put(o.chatMetadata, SETTNGS_NAME,
                       [personas |-> EmptyObject, chars |-> EmptyObject])
              ELSE o.chatMetadata
        chatMappings == cm[SETTNGS_NAME]
        chatTypeKey == ChatTypeKey(r, type)
        nicknameKey == ChatNicknameKey(r, type, ck, pk)
        o1 == [o EXCEPT !.chatMetadata = cm]
    IN  \* chatMappings[chatTypeKey][nicknameKey] with no such sub-map
        IF ~Has(chatMappings, chatTypeKey) THEN Throw(o1, TypeError)
        ELSE IF reset
        THEN Return([o1 EXCEPT
                 !.chatMetadata[SETTNGS_NAME][chatTypeKey] =
                     Delete(chatMappings[chatTypeKey], nicknameKey),
                 !.saveChat = @ + 1], EmptyResult(r))
        ELSE IF Truthy(value)
        THEN Return([o1 EXCEPT
                 !.chatMetadata[SETTNGS_NAME][chatTypeKey] =
                     Put(chatMappings[chatTypeKey], nicknameKey, value),
                 !.saveChat = @ + 1], LevelResult(r, CHAT, value))
        ELSE IF Truthy(forContext)
                \/ Truthy(Get(chatMappings[chatTypeKey], nicknameKey))
        THEN Return(o1, ChatReadResult(r,
                 Get(chatMappings[chatTypeKey], nicknameKey)))
        ELSE o1

\* if (forContext === ContextLevel.CHAR || !forContext) { ... }
CharLevel(r, o, ck, pk, type, value, forContext, reset) ==
    IF o.returned \/ ~(forContext = CHAR \/ ~Truthy(forContext)) THEN o
    ELSE IF IsCharLevelRejected(type, value, reset)
    THEN Return([o EXCEPT !.warning = TRUE], EmptyResult(r))
    ELSE
    LET k == getCharKey(ck)
        nicknameKey == CharNicknameKey(r, type, ck, pk)
        exists == Has(o.settings.mappings.char, k)
        entry == Get(o.settings.mappings.char, k)
    IN  \* settings.mappings.char[charKey]?.personas[nicknameKey] with an
        \* entry that has no personas
        IF exists /\ ~Has(entry, "personas") THEN Throw(o, TypeError)
        ELSE IF reset
        THEN Return([o EXCEPT
                 !.settings.mappings.char =
                     IF ~exists THEN @
                     ELSE Put(@, k, [entry EXCEPT
                              !.personas = Delete(@, nicknameKey)]),
                 !.saveSettings = @ + 1], EmptyResult(r))
        ELSE IF Truthy(value)
        THEN LET \* settings.mappings.char[charKey] ??= { personas: {} }
                 e == IF ~exists
                      THEN [personas |-> EmptyObject] ELSE entry
             IN  Return([o EXCEPT
                     !.settings.mappings.char =
                         Put(@, k, [e EXCEPT
                                 !.personas = Put(@, nicknameKey, value)]),
                     !.saveSettings = @ + 1], LevelResult(r, CHAR, value))
        ELSE IF Truthy(forContext)
                \/ Truthy(CharLevelGet(o.settings, k, nicknameKey))
        THEN Return(o, LevelResult(r, CHAR,
                 CharLevelGet(o.settings, k, nicknameKey)))
        ELSE o

\* a global level whose read answers only when a nickname is stored, also
\* when the level was asked for
GlobalLevelIfStored(r, o, ck, pk, type, value, forContext, reset) ==
    IF o.returned \/ ~(forContext = GLOBAL \/ ~Truthy(forContext)) THEN o
    ELSE
    LET globalTypeKey == GlobalTypeKey(r, type)
        nicknameKey == GlobalNicknameKey(type, ck, pk)
        stored == Get(o.settings.mappings.global[globalTypeKey], nicknameKey)
    IN  IF reset
        THEN Return([o EXCEPT
                 !.settings.mappings.global[globalTypeKey] =
                     Delete(@, nicknameKey),
                 !.saveSettings = @ + 1], EmptyResult(r))
        ELSE IF Truthy(value)
        THEN Return([o EXCEPT
                 !.settings.mappings.global[globalTypeKey] =
                     Put(@, nicknameKey, value),
                 !.saveSettings = @ + 1], LevelResult(r, GLOBAL, value))
        ELSE IF Truthy(stored)
        THEN Return(o, LevelResult(r, GLOBAL, stored))
        ELSE o

\* if (forContext === ContextLevel.GLOBAL || !forContext) { ... }
GlobalLevel(r, o, ck, pk, type, value, forContext, reset) ==
    IF o.returned \/ ~(forContext = GLOBAL \/ ~Truthy(forContext)) THEN o
    ELSE
    LET globalTypeKey == GlobalTypeKey(r, type)
        nicknameKey == GlobalNicknameKey(type, ck, pk)
        stored == Get(o.settings.mappings.global[globalTypeKey], nicknameKey)
    IN  IF reset
        THEN Return([o EXCEPT
                 !.settings.mappings.global[globalTypeKey] =
                     Delete(@, nicknameKey),
                 !.saveSettings = @ + 1], EmptyResult(r))
        ELSE IF Truthy(value)
        THEN Return([o EXCEPT
                 !.settings.mappings.global[globalTypeKey] =
                     Put(@, nicknameKey, value),
                 !.saveSettings = @ + 1], LevelResult(r, GLOBAL, value))
        ELSE IF Truthy(forContext) \/ Truthy(stored)
        THEN Return(o, LevelResult(r, GLOBAL, stored))
        ELSE o

\* return { context: ContextLevel.NONE, name: type === 'char' ? name2 : name1 }
DefaultLevel(r, o, type) ==
    IF o.returned THEN o
    ELSE Return(o, LevelResult(r, NONE,
             IF type = "char" THEN name2 ELSE name1))

\* a handleNickname that looks at the global level before the character level
handleNicknameGlobalFirst(r, s, cm, ck, pk, type, value0, forContext, reset) ==
    LET value == OptionalTrim(value0)
        o == Running(s, cm)
    IN  IF ~HasEngine(r) THEN Throw(o, ReferenceError)
        ELSE IF IsUnknownContext(r, forContext) THEN Throw(o, UnknownContext)
        ELSE IF IsMissingContext(value, forContext, reset)
        THEN Throw(o, NoContextOf(r))
        ELSE DefaultLevel(r,
               CharLevel(r,
                 GlobalLevel(r,
                   ChatLevel(r, o, ck, pk, type, value, forContext, reset),
                   ck, pk, type, value, forContext, reset),
                 ck, pk, type, value, forContext, reset),
               type)

\* handleNickname(type, value, forContext, { reset }) called in revision r
\* with the settings s, the chat metadata cm and the identity keys ck, pk
handleNickname(r, s, cm, ck, pk, type, value0, forContext, reset) ==
    LET value == OptionalTrim(value0)
        o == Running(s, cm)
    IN  IF ~HasEngine(r) THEN Throw(o, ReferenceError)
        ELSE IF IsUnknownContext(r, forContext) THEN Throw(o, UnknownContext)
        ELSE IF IsMissingContext(value, forContext, reset)
        THEN Throw(o, NoContextOf(r))
        ELSE DefaultLevel(r,
               GlobalLevel(r,
                 CharLevel(r,
                   ChatLevel(r, o, ck, pk, type, value, forContext, reset),
                   ck, pk, type, value, forContext, reset),
                 ck, pk, type, value, forContext, reset),
               type)

\* getUserNickname() / getCharNickname(): handleNickname(type).name
\* the older revision returns handleNickname(type), which is the name; the
\* first revision registers the constants 'Kazuma' and 'Megumin'
\* an error handleNickname throws is thrown by the macro too, and is
\* answered as "<TypeError>"
getNickname(r, s, cm, ck, pk, type) ==
    IF r = Initial THEN (IF type = "user" THEN "Kazuma" ELSE "Megumin")
    ELSE LET o == handleNickname(r, s, cm, ck, pk, type, Null, Null, FALSE)
         IN  IF o.error # NoError THEN "<" \o o.error \o ">"
             ELSE IF r = Older THEN o.result.name
             ELSE NameOf(o.result)

-----------------------------------------------------------------------------
(* The callbacks of the slash commands nickname-user and nickname-char *)

\* a label other than the one the commands document
CLEAR_NICKNAME_LABEL == "#clear"

RESET_NICKNAME_LABEL == "#reset"

\* result?.name ?? ''
NameOrEmpty(result) ==
    IF OptionalName(result) \in {Undefined, Null} THEN ""
    ELSE OptionalName(result)

\* try { return handleNickname(type, nickname, args.for,
\*                             { reset: nickname === RESET_NICKNAME_LABEL })?.name ?? '';
\* } catch (error) { toastr.error(...); return ''; }
\* error is what propagates to the caller, toastrError what is shown
\* the older revision: if (args.for && !['chat', 'char', 'global']
\* .includes(args.for)) { toastr.error(...); return ''; }
\* return handleNickname(type, nickname, args.for);
\* the first revision registers no commands
nicknameCallback(r, s, cm, ck, pk, type, for, nickname) ==
    LET o == handleNickname(r, s, cm, ck, pk, type, nickname, for,
                            nickname = RESET_NICKNAME_LABEL)
        older == handleNickname(r, s, cm, ck, pk, type, nickname, for, FALSE)
        none == [settings |-> s, chatMetadata |-> cm,
                 returned |-> Undefined,
                 error |-> NoError, toastrError |-> NoError,
                 saveChat |-> 0, saveSettings |-> 0, warning |-> FALSE]
    IN  IF ~HasEngine(r) THEN [none EXCEPT !.error = ReferenceError]
        ELSE IF r = Older /\ IsUnknownContext(r, for)
        THEN [none EXCEPT !.returned = "", !.toastrError = UnknownContext]
        ELSE IF r = Older
        THEN [settings |-> older.settings, chatMetadata |-> older.chatMetadata,
              returned |-> older.result.name,
              error |-> older.error, toastrError |-> NoError,
              saveChat |-> older.saveChat, saveSettings |-> older.saveSettings,
              warning |-> older.warning]
        ELSE
        [settings |-> o.settings, chatMetadata |-> o.chatMetadata,
         returned |-> IF o.error # NoError THEN "" ELSE NameOrEmpty(o.result),
         error |-> NoError, toastrError |-> o.error,
         saveChat |-> o.saveChat, saveSettings |-> o.saveSettings,
         warning |-> o.warning]

nicknameUserCallback(r, s, cm, ck, pk, for, nickname) ==
    nicknameCallback(r, s, cm, ck, pk, "user", for, nickname)

nicknameCharCallback(r, s, cm, ck, pk, for, nickname) ==
    nicknameCallback(r, s, cm, ck, pk, "char", for, nickname)

-----------------------------------------------------------------------------
(* The CHARACTER_RENAMED and CHARACTER_RENAMED_IN_PAST_CHAT handlers *)

\* a migration that copies the entry and leaves the old one
MigrateCopy(map, oldAvatarKey, newAvatarKey) ==
    Put(map, newAvatarKey, Get(map, oldAvatarKey))

\* a migration that drops the entry
MigrateDrop(map, oldAvatarKey, newAvatarKey) == Delete(map, oldAvatarKey)

\* if (map[oldKey]) { map[newKey] = map[oldKey]; delete map[oldKey]; }
Migrate(map, oldAvatarKey, newAvatarKey) ==
    Delete(Put(map, newAvatarKey, Get(map, oldAvatarKey)), oldAvatarKey)

\* the revision registers the rename handlers
HasRenameEvents(r) == r = "part_001"

\* a handler that persists the conversation on every rename
characterRenamedSavingChat(r, s, cm, oldAvatarKey, newAvatarKey) ==
    IF ~HasRenameEvents(r) THEN Running(s, cm)
    ELSE
    LET s1 == IF Truthy(Get(s.mappings.global.chars, oldAvatarKey))
              THEN [s EXCEPT !.mappings.global.chars =
                                 Migrate(@, oldAvatarKey, newAvatarKey)]
              ELSE s
        s2 == IF Has(s1.mappings.char, oldAvatarKey)
              THEN [s1 EXCEPT !.mappings.char =
                                  Migrate(@, oldAvatarKey, newAvatarKey)]
              ELSE s1
        moveChat == /\ Has(cm, SETTNGS_NAME)
                    /\ Truthy(Get(cm[SETTNGS_NAME].chars, oldAvatarKey))
        cm1 == IF moveChat
               THEN [cm EXCEPT ![SETTNGS_NAME].chars =
                                   Migrate(@, oldAvatarKey, newAvatarKey)]
               ELSE cm
    IN  \* chatMappings.chars[oldAvatarKey] with no chars
        IF Has(cm, SETTNGS_NAME) /\ ~Has(cm[SETTNGS_NAME], "chars")
        THEN Throw(Running(s2, cm), TypeError)
        ELSE [Running(s2, cm1) EXCEPT
                 !.returned = TRUE,
                 !.saveChat = 1,
                 !.saveSettings = 1]

\* the CHARACTER_RENAMED handler
characterRenamed(r, s, cm, oldAvatarKey, newAvatarKey) ==
    IF ~HasRenameEvents(r) THEN Running(s, cm)
    ELSE
    LET s1 == IF Truthy(Get(s.mappings.global.chars, oldAvatarKey))
              THEN [s EXCEPT !.mappings.global.chars =
                                 Migrate(@, oldAvatarKey, newAvatarKey)]
              ELSE s
        s2 == IF Has(s1.mappings.char, oldAvatarKey)
              THEN [s1 EXCEPT !.mappings.char =
                                  Migrate(@, oldAvatarKey, newAvatarKey)]
              ELSE s1
        moveChat == /\ Has(cm, SETTNGS_NAME)
                    /\ Truthy(Get(cm[SETTNGS_NAME].chars, oldAvatarKey))
        cm1 == IF moveChat
               THEN [cm EXCEPT ![SETTNGS_NAME].chars =
                                   Migrate(@, oldAvatarKey, newAvatarKey)]
               ELSE cm
    IN  \* chatMappings.chars[oldAvatarKey] with no chars
        IF Has(cm, SETTNGS_NAME) /\ ~Has(cm[SETTNGS_NAME], "chars")
        THEN Throw(Running(s2, cm), TypeError)
        ELSE [Running(s2, cm1) EXCEPT
                 !.returned = TRUE,
                 !.saveChat = IF moveChat THEN 1 ELSE 0,
                 !.saveSettings = 1]

\* a message of a chat file: chat[0] carries the chat's metadata, whose
\* typeof is metadataType
Message(metadataType, metadata) ==
    [metadataType |-> metadataType, chat_metadata |-> metadata]

\* { personas, chars }
NicknameMappings(personas, chars) == [personas |-> personas, chars |-> chars]

\* a handler for past chats that saves the loaded chat as the handler of
\* CHARACTER_RENAMED does
characterRenamedInPastChatSaving(r, s, cm, chat, oldAvatarKey, newAvatarKey) ==
    LET o == [settings |-> s, chatMetadata |-> cm, chat |-> chat,
              error |-> NoError, saveChat |-> 0, saveSettings |-> 0]
    IN  IF ~HasRenameEvents(r) THEN o
        ELSE IF Len(chat) = 0 \/ chat[1].metadataType # "object" THEN o
        ELSE IF /\ Has(chat[1].chat_metadata, SETTNGS_NAME)
                /\ ~Has(chat[1].chat_metadata[SETTNGS_NAME], "chars")
        THEN [o EXCEPT !.error = TypeError]
        ELSE IF /\ Has(chat[1].chat_metadata, SETTNGS_NAME)
                /\ Truthy(Get(chat[1].chat_metadata[SETTNGS_NAME].chars,
                              oldAvatarKey))
        THEN [o EXCEPT !.chat[1].chat_metadata[SETTNGS_NAME].chars =
                           Migrate(@, oldAvatarKey, newAvatarKey),
                       !.saveChat = 1]
        ELSE o

\* a handler for past chats without the test of line 225
characterRenamedInPastChatUnguarded(r, s, cm, chat, oldAvatarKey, newAvatarKey) ==
    LET o == [settings |-> s, chatMetadata |-> cm, chat |-> chat,
              error |-> NoError, saveChat |-> 0, saveSettings |-> 0]
    IN  IF ~HasRenameEvents(r) THEN o
        ELSE IF Len(chat) = 0 \/ chat[1].metadataType = "undefined"
        THEN [o EXCEPT !.error = TypeError]
        ELSE IF chat[1].metadataType # "object" THEN o
        ELSE IF /\ Has(chat[1].chat_metadata, SETTNGS_NAME)
                /\ Truthy(Get(chat[1].chat_metadata[SETTNGS_NAME].chars,
                              oldAvatarKey))
        THEN [o EXCEPT !.chat[1].chat_metadata[SETTNGS_NAME].chars =
                           Migrate(@, oldAvatarKey, newAvatarKey)]
        ELSE o

\* the CHARACTER_RENAMED_IN_PAST_CHAT handler, called with the chat of a
\* conversation that is not loaded
characterRenamedInPastChat(r, s, cm, chat, oldAvatarKey, newAvatarKey) ==
    LET o == [settings |-> s, chatMetadata |-> cm, chat |-> chat,
              error |-> NoError, saveChat |-> 0, saveSettings |-> 0]
    IN  IF ~HasRenameEvents(r) THEN o
        ELSE IF Len(chat) = 0 \/ chat[1].metadataType # "object" THEN o
        ELSE IF /\ Has(chat[1].chat_metadata, SETTNGS_NAME)
                /\ ~Has(chat[1].chat_metadata[SETTNGS_NAME], "chars")
        THEN [o EXCEPT !.error = TypeError]
        ELSE IF /\ Has(chat[1].chat_metadata, SETTNGS_NAME)
                /\ Truthy(Get(chat[1].chat_metadata[SETTNGS_NAME].chars,
                              oldAvatarKey))
        THEN [o EXCEPT !.chat[1].chat_metadata[SETTNGS_NAME].chars =
                           Migrate(@, oldAvatarKey, newAvatarKey)]
        ELSE o

-----------------------------------------------------------------------------
(* The state of the program and of its host *)

\* let settings = { mappings: { char: {}, global: { personas: {}, chars: {} } } }
DefaultSettings ==
    [mappings |-> [char |-> EmptyObject,
                   global |-> [personas |-> EmptyObject,
                               chars |-> EmptyObject]]]

\* obj[key] = value, whatever obj holds
PutAlways(obj, key, value) == Put(obj, key, value)

\* obj[key] ??= value
PutIfMissing(obj, key, value) ==
    IF Has(obj, key) THEN obj ELSE Put(obj, key, value)

\* the object settings refers to, as the value of a property
SettingsObject == "{settings}"

\* loadNicknameSettings() when the host has read the object stored from its
\* file: the settings the module works on afterwards, and the host's object
loadNicknameSettings(stored) ==
    IF ~Has(stored, SETTNGS_NAME)
    THEN [settings |-> DefaultSettings, extension_settings |-> EmptyObject]
    ELSE
    LET loadedSettings == stored[SETTNGS_NAME]
        mappings == PutIfMissing(loadedSettings, "mappings",
                                 DefaultSettings.mappings).mappings
        char == PutIfMissing(mappings, "char", EmptyObject).char
        global0 == PutIfMissing(mappings, "global",
                                DefaultSettings.mappings.global).global
        global1 == PutIfMissing(global0, "personas", EmptyObject)
        global == PutIfMissing(global1, "chars", EmptyObject)
    IN  [settings |->
             Put(loadedSettings, "mappings",
                 Put(Put(mappings, "char", char), "global", global)),
         extension_settings |-> Put(EmptyObject, SETTNGS_NAME, SettingsObject)]

\* loadSettings() of the first revision: extension_settings[SETTNGS_NAME]
\* ??= {}; settings = extension_settings[SETTNGS_NAME]
loadSettings(stored) ==
    [settings |-> IF Has(stored, SETTNGS_NAME)
                  THEN stored[SETTNGS_NAME] ELSE EmptyObject,
     extension_settings |-> Put(EmptyObject, SETTNGS_NAME, SettingsObject)]

\* the load of a revision
Load(r, stored) ==
    IF r = Initial THEN loadSettings(stored) ELSE loadNicknameSettings(stored)

\* what the host's saveSettings writes to its file: extension_settings, with
\* the object it refers to under the key of the extension, if any
SavedSettings(es, s) ==
    IF Has(es, SETTNGS_NAME) THEN Put(EmptyObject, SETTNGS_NAME, s)
    ELSE EmptyObject

\* the nicknames a map holds
Size(map) == Cardinality(DOMAIN map)

\* the nicknames the sub-map of an object holds, none if it has no such
SizeOf(obj, key) == IF Has(obj, key) THEN Size(obj[key]) ELSE 0

RECURSIVE SumSizes(_, _)
SumSizes(map, keys) ==
    IF keys = {} THEN 0
    ELSE LET k == CHOOSE x \in keys : TRUE
         IN  SizeOf(map[k], "personas") + SumSizes(map, keys \ {k})

\* the number of nicknames stored at all levels
NicknameCount(s, cm) ==
    IF ~Has(s, "mappings") THEN 0 ELSE
    Size(s.mappings.global.personas) + Size(s.mappings.global.chars)
    + SumSizes(s.mappings.char, DOMAIN s.mappings.char)
    + (IF Has(cm, SETTNGS_NAME)
       THEN SizeOf(cm[SETTNGS_NAME], "personas")
            + SizeOf(cm[SETTNGS_NAME], "chars")
       ELSE 0)

\* the host with the extension loaded on a first run, in a fresh conversation
\* with a character
InitState ==
    /\ settings = Load(rev, EmptyObject).settings
    /\ extension_settings = Load(rev, EmptyObject).extension_settings
    /\ chatMetadata = EmptyObject
    /\ charKey \in Avatars
    /\ user_avatar \in Personas

Init == rev = "part_001" /\ InitState

\* what the host has read from its settings file on a later run: the object
\* of the extension, with some of its sub-mappings missing
StoredSettings ==
    {Put(EmptyObject, SETTNGS_NAME, loadedSettings) :
        loadedSettings \in
            {EmptyObject,
             [mappings |-> EmptyObject],
             [mappings |-> [char |-> EmptyObject]],
             [mappings |-> [global |-> [chars |-> EmptyObject]]],
             [mappings |-> [char |-> [A |-> EmptyObject],
                            global |-> [personas |-> EmptyObject]]],
             DefaultSettings}}

\* the metadata of the conversation the host has loaded: without a nickname
\* mapping, or with one that misses some of its sub-mappings
LoadedChatMetadata ==
    {EmptyObject}
    \cup {Put(EmptyObject, SETTNGS_NAME, chatMappings) :
            chatMappings \in {EmptyObject,
                              [personas |-> EmptyObject],
                              [chars |-> EmptyObject],
                              [personas |-> EmptyObject, chars |-> EmptyObject]}}

\* the host with the extension loaded on a later run
InitLoaded ==
    /\ rev = "part_001"
    /\ \E stored \in StoredSettings :
          /\ settings = loadNicknameSettings(stored).settings
          /\ extension_settings = loadNicknameSettings(stored).extension_settings
    /\ chatMetadata \in LoadedChatMetadata
    /\ charKey \in Avatars
    /\ user_avatar \in Personas

InitRevisions == rev \in Revisions /\ InitState

\* a call of handleNickname, in a revision that defines it
HandleNickname(type, value, forContext, reset) ==
    /\ HasEngine(rev)
    /\ \E o \in {handleNickname(rev, settings, chatMetadata, charKey, user_avatar,
                                type, value, forContext, reset)} :
           /\ settings' = o.settings
           /\ chatMetadata' = o.chatMetadata
           /\ UNCHANGED <<rev, extension_settings, charKey, user_avatar>>

\* handleNickname(type, null, forContext)
Read(type, forContext) == HandleNickname(type, Null, forContext, FALSE)

\* handleNickname(type, value, forContext)
Set(type, value, forContext) == HandleNickname(type, value, forContext, FALSE)

\* handleNickname(type, null, forContext, { reset: true })
Reset(type, forContext) == HandleNickname(type, Null, forContext, TRUE)

\* the host expands the macro {{user}} or {{char}}; the constant macros of
\* the first revision leave the state as it is
Macro(type) ==
    \E o \in {handleNickname(rev, settings, chatMetadata, charKey, user_avatar,
                            type, Null, Null, FALSE)} :
        /\ settings' = o.settings
        /\ chatMetadata' = o.chatMetadata
        /\ UNCHANGED <<rev, extension_settings, charKey, user_avatar>>

\* the host renames a character and emits CHARACTER_RENAMED
CharacterRenamed(oldAvatarKey, newAvatarKey) ==
    \E o \in {characterRenamed(rev, settings, chatMetadata,
                              oldAvatarKey, newAvatarKey)} :
        /\ settings' = o.settings
        /\ chatMetadata' = o.chatMetadata
        /\ charKey' = IF charKey = oldAvatarKey THEN newAvatarKey ELSE charKey
        /\ UNCHANGED <<rev, extension_settings, user_avatar>>

\* the chats of conversations that are not loaded, as the host passes them
PastChats ==
    {<<>>,
     <<Message("undefined", EmptyObject)>>,
     <<Message("string", EmptyObject)>>,
     <<Message("object", EmptyObject)>>}
    \cup
    {<<Message("object", Put(EmptyObject, SETTNGS_NAME,
                             NicknameMappings(Put(EmptyObject, "P", "N"),
                                              chars)))>> :
        chars \in {Put(EmptyObject, "A", "N"),
                   Put(Put(EmptyObject, "A", "N"), "B", "M")}}

\* the host renames a character in the chat file of a past conversation and
\* emits CHARACTER_RENAMED_IN_PAST_CHAT; the host keeps the chat it passed
CharacterRenamedInPastChat(chat, oldAvatarKey, newAvatarKey) ==
    \E o \in {characterRenamedInPastChat(rev, settings, chatMetadata, chat,
                                         oldAvatarKey, newAvatarKey)} :
        /\ settings' = o.settings
        /\ chatMetadata' = o.chatMetadata
        /\ UNCHANGED <<rev, extension_settings, charKey, user_avatar>>

\* the user selects another character, or none
SelectCharacter(k) ==
    /\ k # charKey
    /\ charKey' = k
    /\ UNCHANGED <<rev, extension_settings, settings, chatMetadata, user_avatar>>

\* the user selects another persona
SelectPersona(p) ==
    /\ p # user_avatar
    /\ user_avatar' = p
    /\ UNCHANGED <<rev, extension_settings, settings, chatMetadata, charKey>>

Next ==
    \/ \E type \in Types, forContext \in Contexts : Read(type, forContext)
    \/ /\ NicknameCount(settings, chatMetadata) < MaxNicknames
       /\ \E type \in Types, value \in Nicknames, forContext \in Contexts :
              Set(type, value, forContext)
    \/ \E type \in Types, forContext \in Contexts : Reset(type, forContext)
    \/ \E type \in Types : Macro(type)
    \/ \E oldAvatarKey \in Avatars, newAvatarKey \in Avatars :
           CharacterRenamed(oldAvatarKey, newAvatarKey)
    \/ \E chat \in PastChats, oldAvatarKey \in Avatars, newAvatarKey \in Avatars :
           CharacterRenamedInPastChat(chat, oldAvatarKey, newAvatarKey)
    \/ \E k \in Avatars \cup {Undefined} : SelectCharacter(k)
    \/ \E p \in Personas : SelectPersona(p)

Spec == Init /\ [][Next]_vars

\* the user runs /nickname-user or /nickname-char with the named argument
\* for and the unnamed argument nickname, either of which may be left out
NicknameCommand(type, for, nickname) ==
    \E o \in {IF type = "user"
               THEN nicknameUserCallback(rev, settings, chatMetadata,
                                         charKey, user_avatar, for, nickname)
               ELSE nicknameCharCallback(rev, settings, chatMetadata,
                                         charKey, user_avatar, for, nickname)} :
        /\ settings' = o.settings
        /\ chatMetadata' = o.chatMetadata
        /\ UNCHANGED <<rev, extension_settings, charKey, user_avatar>>

\* the arguments the commands are explored with
CommandScopes == {Undefined, GLOBAL, CHAR, CHAT, NONE, "bogus"}
CommandNicknames == {" N "}

\* the extension as the user and the host drive it: commands, macros and
\* events
NextCommands ==
    \/ \E type \in Types, for \in CommandScopes :
           \E nickname \in {Undefined, "", RESET_NICKNAME_LABEL} :
               NicknameCommand(type, for, nickname)
    \/ /\ NicknameCount(settings, chatMetadata) < MaxNicknames
       /\ \E type \in Types, for \in CommandScopes :
              \E nickname \in CommandNicknames :
                  NicknameCommand(type, for, nickname)
    \/ \E type \in Types : Macro(type)
    \/ \E oldAvatarKey \in Avatars, newAvatarKey \in Avatars :
           CharacterRenamed(oldAvatarKey, newAvatarKey)
    \/ \E chat \in PastChats, oldAvatarKey \in Avatars, newAvatarKey \in Avatars :
           CharacterRenamedInPastChat(chat, oldAvatarKey, newAvatarKey)
    \/ \E k \in Avatars \cup {Undefined} : SelectCharacter(k)
    \/ \E p \in Personas : SelectPersona(p)

SpecCommands == Init /\ [][NextCommands]_vars

SpecRevisions == InitRevisions /\ [][Next]_vars

SpecLoaded == InitLoaded /\ [][Next]_vars

-----------------------------------------------------------------------------
(* The stored nicknames, as the specification addresses them *)

\* the nickname of the role at chat level, for the identity keys ck and pk
ChatNickname(cm, type, ck, pk) ==
    IF ~Has(cm, SETTNGS_NAME) THEN Undefined
    ELSE IF type = "char" THEN Get(cm[SETTNGS_NAME].chars, ck)
    ELSE Get(cm[SETTNGS_NAME].personas, pk)

\* the nickname of the persona pk at the level of the character ck
CharNickname(s, ck, pk) ==
    IF ~Has(s, "mappings") THEN Undefined
    ELSE IF ~Has(s.mappings.char, ck) THEN Undefined
    ELSE Get(s.mappings.char[PropertyKey(ck)].personas, pk)

\* the nickname of the role at global level
GlobalNickname(s, type, ck, pk) ==
    IF ~Has(s, "mappings") THEN Undefined
    ELSE IF type = "char" THEN Get(s.mappings.global.chars, ck)
    ELSE Get(s.mappings.global.personas, pk)

\* the answer of a call in the current state
Now(type, value, forContext, reset) ==
    handleNickname(rev, settings, chatMetadata, charKey, user_avatar,
                   type, value, forContext, reset)

\* a call left the stored mappings alone and triggered no persistence
Untouched(o) ==
    /\ o.settings = settings
    /\ o.chatMetadata = chatMetadata
    /\ o.saveChat = 0
    /\ o.saveSettings = 0

\* a value that is a nickname to set: neither absent nor blank
NonBlank(value) == value \notin {Null, Undefined} /\ trim(value) # ""

\* values a call may be given, blank ones included
AnyValues == Values \cup {"", "  ", "N", " M "}

-----------------------------------------------------------------------------
(* C1: for role=user an unscoped read returns the chat nickname of the     *)
(* current persona if one is stored, else the character-level nickname at  *)
(* (current character, current persona), else the global nickname of the   *)
(* persona, else NONE with the user's default name; the tag names the      *)
(* level the value came from.  Checked in every reachable state, and in    *)
(* the state each further set of another nickname at one level leads to.   *)
UserPrecedence(s, cm) ==
    LET o == handleNickname(rev, s, cm, charKey, user_avatar,
                            "user", Null, Null, FALSE)
        chat == ChatNickname(cm, "user", charKey, user_avatar)
        char == CharNickname(s, charKey, user_avatar)
        global == GlobalNickname(s, "user", charKey, user_avatar)
    IN  /\ o.error = NoError
        /\ o.result =
             IF chat # Undefined THEN NicknameResult(CHAT, chat)
             ELSE IF char # Undefined THEN NicknameResult(CHAR, char)
             ELSE IF global # Undefined THEN NicknameResult(GLOBAL, global)
             ELSE NicknameResult(NONE, name1)

C1_UserPrecedence ==
    /\ UserPrecedence(settings, chatMetadata)
    /\ \A type \in Types : \A forContext \in {CHAT, CHAR, GLOBAL} :
          LET set == Now(type, "M", forContext, FALSE)
          IN  UserPrecedence(set.settings, set.chatMetadata)

\* a character-level and a global nickname are stored for the persona, none
\* at chat level, and the read answers the character-level one, also when
\* the global one is another name
C1_Witness ==
    /\ charKey \in Avatars
    /\ ChatNickname(chatMetadata, "user", charKey, user_avatar) = Undefined
    /\ CharNickname(settings, charKey, user_avatar) = "N"
    /\ GlobalNickname(settings, "user", charKey, user_avatar) = "N"
    /\ Now("user", Null, Null, FALSE).result = NicknameResult(CHAR, "N")
    /\ LET set == Now("user", "M", GLOBAL, FALSE)
       IN  handleNickname(rev, set.settings, set.chatMetadata, charKey,
                          user_avatar, "user", Null, Null, FALSE).result
             = NicknameResult(CHAR, "N")

-----------------------------------------------------------------------------
(* C2: for role=char a read consults only the chat and global levels: an   *)
(* unscoped read never answers with the tag CHAR; with no chat nickname    *)
(* for the current character it answers the global nickname of the         *)
(* character, or NONE with the character's default name, whatever persona  *)
(* nicknames are stored at character level.                                *)
C2_CharReadSkipsCharLevel ==
    LET o == Now("char", Null, Null, FALSE)
        chat == ChatNickname(chatMetadata, "char", charKey, user_avatar)
        global == GlobalNickname(settings, "char", charKey, user_avatar)
    IN  /\ o.error = NoError
        /\ o.result.context # CHAR
        /\ chat = Undefined =>
             o.result = IF global # Undefined
                        THEN NicknameResult(GLOBAL, global)
                        ELSE NicknameResult(NONE, name2)

-----------------------------------------------------------------------------
(* C3: round trip: for every role, every level valid for the role and      *)
(* every non-blank value, a set answers {level, trimmed value} and a read  *)
(* at that level right after it answers the same.                          *)
ValidContexts(type) ==
    IF type = "char" THEN {CHAT, GLOBAL} ELSE {CHAT, CHAR, GLOBAL}

C3_RoundTrip ==
    \A type \in Types : \A forContext \in ValidContexts(type) :
        \A value \in {v \in AnyValues : NonBlank(v)} :
            LET set == Now(type, value, forContext, FALSE)
                read == handleNickname(rev, set.settings, set.chatMetadata,
                                       charKey, user_avatar,
                                       type, Null, forContext, FALSE)
                expected == NicknameResult(forContext,
                                IF value \in {" M ", "M"} THEN "M" ELSE "N")
            IN  /\ set.error = NoError /\ set.result = expected
                /\ read.error = NoError /\ read.result = expected

-----------------------------------------------------------------------------
(* C4: the macro functions user and char return a defined display string:  *)
(* the nickname of the highest level that holds one for the current        *)
(* identity, or the default name of the role when no level holds one.      *)
DisplayName(type) ==
    LET chat == ChatNickname(chatMetadata, type, charKey, user_avatar)
        char == IF type = "user"
                THEN CharNickname(settings, charKey, user_avatar)
                ELSE Undefined
        global == GlobalNickname(settings, type, charKey, user_avatar)
    IN  IF chat # Undefined THEN chat
        ELSE IF char # Undefined THEN char
        ELSE IF global # Undefined THEN global
        ELSE IF type = "char" THEN name2 ELSE name1

C4_MacroReturnsDisplayName ==
    \A type \in Types :
        LET name == getNickname(rev, settings, chatMetadata,
                                charKey, user_avatar, type)
        IN  name # Undefined /\ name = DisplayName(type)

-----------------------------------------------------------------------------
(* C5: after the rename notification (oldKey -> newKey, two different      *)
(* keys) has been handled, global.chars, the character-level map and the   *)
(* loaded conversation's chars map hold no entry keyed by oldKey, and each *)
(* value that was stored under oldKey is stored under newKey.              *)
Moved(before, after, oldAvatarKey, newAvatarKey) ==
    /\ oldAvatarKey \notin DOMAIN after
    /\ oldAvatarKey \in DOMAIN before =>
          /\ newAvatarKey \in DOMAIN after
          /\ after[newAvatarKey] = before[oldAvatarKey]

C5_RenameMigrates ==
    \A oldAvatarKey \in Avatars : \A newAvatarKey \in Avatars \ {oldAvatarKey} :
        LET o == characterRenamed(rev, settings, chatMetadata,
                                  oldAvatarKey, newAvatarKey)
        IN  /\ Moved(settings.mappings.global.chars,
                     o.settings.mappings.global.chars,
                     oldAvatarKey, newAvatarKey)
            /\ Moved(settings.mappings.char, o.settings.mappings.char,
                     oldAvatarKey, newAvatarKey)
            /\ Has(chatMetadata, SETTNGS_NAME) =>
                  /\ Has(o.chatMetadata, SETTNGS_NAME)
                  /\ Moved(chatMetadata[SETTNGS_NAME].chars,
                           o.chatMetadata[SETTNGS_NAME].chars,
                           oldAvatarKey, newAvatarKey)

\* character A has a global nickname and a character-level persona nickname,
\* and the rename to B leaves both under B
C5_Witness ==
    /\ "A" \in DOMAIN settings.mappings.global.chars
    /\ "A" \in DOMAIN settings.mappings.char
    /\ settings.mappings.char["A"].personas # EmptyObject
    /\ LET o == characterRenamed(rev, settings, chatMetadata, "A", "B")
       IN  /\ DOMAIN o.settings.mappings.global.chars = {"B"}
           /\ DOMAIN o.settings.mappings.char = {"B"}
           /\ o.settings.mappings.char["B"] = settings.mappings.char["A"]

-----------------------------------------------------------------------------
(* C6: rename keeps resolution consistent: with no entry stored under      *)
(* newKey beforehand, for every role and every level the read taken with   *)
(* oldKey as the active character before the rename equals the same read   *)
(* taken with newKey as the active character after it.                     *)
NoEntryUnder(s, cm, k) ==
    /\ k \notin DOMAIN s.mappings.global.chars
    /\ k \notin DOMAIN s.mappings.char
    /\ Has(cm, SETTNGS_NAME) => k \notin DOMAIN cm[SETTNGS_NAME].chars

C6_RenameKeepsResolution ==
    \A oldAvatarKey \in Avatars : \A newAvatarKey \in Avatars :
        NoEntryUnder(settings, chatMetadata, newAvatarKey) =>
            LET o == characterRenamed(rev, settings, chatMetadata,
                                      oldAvatarKey, newAvatarKey)
            IN  \A type \in Types : \A forContext \in {Null, GLOBAL, CHAR, CHAT} :
                    handleNickname(rev, settings, chatMetadata,
                                   oldAvatarKey, user_avatar,
                                   type, Null, forContext, FALSE).result
                    = handleNickname(rev, o.settings, o.chatMetadata,
                                     newAvatarKey, user_avatar,
                                     type, Null, forContext, FALSE).result

\* the character A has a chat nickname and the persona a nickname at the
\* level of A, B has nothing, and after the rename to B both reads with B
\* active answer them
C6_Witness ==
    /\ NoEntryUnder(settings, chatMetadata, "B")
    /\ ChatNickname(chatMetadata, "char", "A", user_avatar) = "N"
    /\ CharNickname(settings, "A", user_avatar) = "N"
    /\ LET o == characterRenamed(rev, settings, chatMetadata, "A", "B")
       IN  /\ handleNickname(rev, o.settings, o.chatMetadata, "B", user_avatar,
                             "char", Null, Null, FALSE).result
                = NicknameResult(CHAT, "N")
           /\ handleNickname(rev, o.settings, o.chatMetadata, "B", user_avatar,
                             "user", Null, CHAR, FALSE).result
                = NicknameResult(CHAR, "N")

-----------------------------------------------------------------------------
(* C7: the handler of a rename in a past conversation changes only the     *)
(* chars map inside the conversation data it is passed, moving the oldKey  *)
(* entry to newKey; it triggers neither persistence call and leaves the    *)
(* account settings and the loaded conversation's mapping unchanged.       *)
OnlyCharsChanged(before, after) ==
    /\ Len(after) = Len(before)
    /\ \A i \in 1..Len(before) :
          /\ after[i].metadataType = before[i].metadataType
          /\ DOMAIN after[i].chat_metadata = DOMAIN before[i].chat_metadata
          /\ Has(before[i].chat_metadata, SETTNGS_NAME) =>
                after[i].chat_metadata[SETTNGS_NAME].personas
                  = before[i].chat_metadata[SETTNGS_NAME].personas
          /\ i > 1 => after[i] = before[i]

C7_PastChatRenameFrame ==
    \A chat \in PastChats : \A oldAvatarKey \in Avatars :
        \A newAvatarKey \in Avatars :
            LET o == characterRenamedInPastChat(rev, settings, chatMetadata,
                         chat, oldAvatarKey, newAvatarKey)
            IN  /\ o.settings = settings
                /\ o.chatMetadata = chatMetadata
                /\ o.saveChat = 0
                /\ o.saveSettings = 0
                /\ OnlyCharsChanged(chat, o.chat)
                /\ (/\ oldAvatarKey # newAvatarKey
                    /\ Len(chat) > 0
                    /\ Has(chat[1].chat_metadata, SETTNGS_NAME)) =>
                      Moved(chat[1].chat_metadata[SETTNGS_NAME].chars,
                            o.chat[1].chat_metadata[SETTNGS_NAME].chars,
                            oldAvatarKey, newAvatarKey)

\* the loaded conversation and the account hold nicknames of A, and a past
\* conversation that holds one too has it moved to B
C7_Witness ==
    /\ ChatNickname(chatMetadata, "char", "A", user_avatar) # Undefined
    /\ GlobalNickname(settings, "char", "A", user_avatar) # Undefined
    /\ \E chat \in PastChats :
          LET o == characterRenamedInPastChat(rev, settings, chatMetadata,
                                              chat, "A", "B")
          IN  /\ o.chat # chat
              /\ DOMAIN o.chat[1].chat_metadata[SETTNGS_NAME].chars = {"B"}
              /\ ChatNickname(o.chatMetadata, "char", "A", user_avatar)
                   # Undefined

-----------------------------------------------------------------------------
(* C8: a call whose scope is provided and is a token other than global,    *)
(* char or chat fails with an error, for every role and every combination  *)
(* of value and reset, and leaves the settings, the conversation metadata  *)
(* and the persistence calls alone.                                        *)
C8_UnknownScopeFails ==
    \A type \in Types : \A value \in AnyValues : \A reset \in BOOLEAN :
        \A forContext \in {NONE, "bogus", "user", "Chat"} :
            LET o == Now(type, value, forContext, reset)
            IN  o.error = UnknownContext /\ Untouched(o)

-----------------------------------------------------------------------------
(* C9: a call with no scope that supplies a non-blank value or reset fails *)
(* with the error of the missing scope and changes nothing: no stored      *)
(* nickname, no conversation metadata created, no persistence call; a call *)
(* with no scope, no value and no reset never fails with this error.       *)
C9_ScopeRequired ==
    \A type \in Types : \A forContext \in {Null, Undefined, ""} :
        /\ \A value \in AnyValues : \A reset \in BOOLEAN :
              (NonBlank(value) \/ reset) =>
                  LET o == Now(type, value, forContext, reset)
                  IN  o.error = NoContext /\ Untouched(o)
        /\ Now(type, Null, forContext, FALSE).error = NoError

\* a chat nickname of the persona is stored and a reset and a set without
\* scope both fail and leave it
C9_Witness ==
    /\ ChatNickname(chatMetadata, "user", charKey, user_avatar) = "N"
    /\ Now("user", Null, Null, TRUE).error = NoContext
    /\ Now("user", "M", Null, FALSE).error = NoContext
    /\ ChatNickname(Now("user", Null, Null, TRUE).chatMetadata,
                    "user", charKey, user_avatar) = "N"

-----------------------------------------------------------------------------
(* C10: for role=char with scope=char every set of a non-blank value and   *)
(* every reset returns the absent result without throwing, leaves every    *)
(* stored mapping unchanged and triggers no persistence call.              *)
C10_CharLevelRejected ==
    \A value \in AnyValues : \A reset \in BOOLEAN :
        (NonBlank(value) \/ reset) =>
            LET o == Now("char", value, CHAR, reset)
            IN  /\ o.error = NoError
                /\ o.result = NullResult
                /\ Untouched(o)

\* the persona has a nickname at the level of the active character, and a
\* set and a reset for role=char at that level are refused with a warning
C10_Witness ==
    /\ charKey \in Avatars
    /\ CharNickname(settings, charKey, user_avatar) = "N"
    /\ Now("char", "M", CHAR, FALSE).warning
    /\ Now("char", Null, CHAR, TRUE).warning
    /\ CharNickname(Now("char", Null, CHAR, TRUE).settings,
                    charKey, user_avatar) = "N"

-----------------------------------------------------------------------------
(* C11: for every role and every level valid for the role a reset answers  *)
(* the absent result without an error, leaves no entry for the current     *)
(* identity at that level, and a read at that level right after it answers *)
(* an absent name; every other stored nickname is left as it was, so a     *)
(* reset with nothing stored there changes no stored nickname; a second    *)
(* reset leaves the state of the first.                                    *)
StoredAt(forContext, s, cm, type, ck, pk) ==
    IF forContext = CHAT THEN ChatNickname(cm, type, ck, pk)
    ELSE IF forContext = CHAR THEN CharNickname(s, ck, pk)
    ELSE GlobalNickname(s, type, ck, pk)

\* the slots of the stored nicknames: level, role, character key, persona key
Slots == {CHAT, CHAR, GLOBAL} \X Types \X (Avatars \cup {Undefined}) \X Personas

SlotValue(s, cm, slot) == StoredAt(slot[1], s, cm, slot[2], slot[3], slot[4])

\* the slots that hold the nickname of the role for the identity (ck, pk) at
\* the level forContext
SlotsOf(forContext, type, ck, pk) ==
    {slot \in Slots :
        /\ slot[1] = forContext
        /\ forContext # CHAR => slot[2] = type
        /\ (forContext = CHAR \/ type = "char") => slot[3] = ck
        /\ (forContext = CHAR \/ type = "user") => slot[4] = pk}

C11_Reset ==
    \A type \in Types : \A forContext \in ValidContexts(type) :
        LET reset == Now(type, Null, forContext, TRUE)
            again == handleNickname(rev, reset.settings, reset.chatMetadata,
                                    charKey, user_avatar,
                                    type, Null, forContext, TRUE)
            read == handleNickname(rev, reset.settings, reset.chatMetadata,
                                   charKey, user_avatar,
                                   type, Null, forContext, FALSE)
        IN  /\ reset.error = NoError
            /\ reset.result = NullResult
            /\ StoredAt(forContext, reset.settings, reset.chatMetadata,
                        type, charKey, user_avatar) = Undefined
            /\ read.error = NoError
            /\ read.result = NicknameResult(forContext, Undefined)
            /\ \A slot \in Slots \ SlotsOf(forContext, type,
                                           charKey, user_avatar) :
                  SlotValue(reset.settings, reset.chatMetadata, slot)
                    = SlotValue(settings, chatMetadata, slot)
            /\ again.error = NoError
            /\ again.result = NullResult
            /\ again.settings = reset.settings
            /\ again.chatMetadata = reset.chatMetadata
            \* the reset label the commands pass as the value is ignored
            /\ Now(type, "#reset", forContext, TRUE) = reset

\* the persona has a nickname at chat level and at the level of the active
\* character; the reset at chat level removes the first and keeps the second
C11_Witness ==
    /\ charKey \in Avatars
    /\ ChatNickname(chatMetadata, "user", charKey, user_avatar) = "N"
    /\ CharNickname(settings, charKey, user_avatar) = "N"
    /\ LET reset == Now("user", Null, CHAT, TRUE)
       IN  /\ ChatNickname(reset.chatMetadata, "user", charKey, user_avatar)
                = Undefined
           /\ CharNickname(reset.settings, charKey, user_avatar) = "N"

-----------------------------------------------------------------------------
(* C12: no mapping at any level holds a nickname that is empty, blank or   *)
(* padded with white space: in every reachable state, in the state every   *)
(* further call with any value leads to, and in the past conversation a    *)
(* rename has migrated.                                                    *)
Range(map) == {map[k] : k \in DOMAIN map}

\* the nicknames of a chat mapping { personas, chars }
MappingValues(mappings) == Range(mappings.personas) \cup Range(mappings.chars)

\* the nicknames stored at all levels
StoredValues(s, cm) ==
    MappingValues(s.mappings.global)
    \cup UNION {Range(s.mappings.char[k].personas) : k \in DOMAIN s.mappings.char}
    \cup (IF Has(cm, SETTNGS_NAME) THEN MappingValues(cm[SETTNGS_NAME]) ELSE {})

\* a nickname as it may be stored: a string, not empty, with no white space
\* at either end
IsStorable(v) == v \notin {Undefined, Null, ""} /\ trim(v) = v

C12_NoBlankStored ==
    /\ \A v \in StoredValues(settings, chatMetadata) : IsStorable(v)
    /\ \A type \in Types : \A value \in {"", " ", "\t\f ", " M", "﻿ \tM\f\n "} :
          \A forContext \in {CHAT, CHAR, GLOBAL} :
              LET o == Now(type, value, forContext, FALSE)
              IN  \A v \in StoredValues(o.settings, o.chatMetadata) :
                      IsStorable(v)
    /\ \A oldAvatarKey \in Avatars : \A newAvatarKey \in Avatars :
          /\ LET o == characterRenamed(rev, settings, chatMetadata,
                                       oldAvatarKey, newAvatarKey)
             IN  \A v \in StoredValues(o.settings, o.chatMetadata) :
                     IsStorable(v)
          /\ \A chat \in PastChats :
                LET o == characterRenamedInPastChat(rev, settings, chatMetadata,
                             chat, oldAvatarKey, newAvatarKey)
                IN  /\ \A v \in StoredValues(o.settings, o.chatMetadata) :
                           IsStorable(v)
                    /\ (Len(o.chat) > 0
                        /\ Has(o.chat[1].chat_metadata, SETTNGS_NAME)) =>
                          \A v \in MappingValues(
                                     o.chat[1].chat_metadata[SETTNGS_NAME]) :
                              IsStorable(v)

\* two nicknames are stored, both given padded, and a further padded one is
\* stored trimmed while a blank one is not stored
C12_Witness ==
    /\ Cardinality(DOMAIN settings.mappings.global.personas) = 1
    /\ StoredValues(settings, chatMetadata) = {"N"}
    /\ NicknameCount(settings, chatMetadata) = 2
    /\ StoredValues(Now("char", " \tM\n", GLOBAL, FALSE).settings,
                    chatMetadata) = {"N", "M"}
    /\ Now("char", " ", GLOBAL, FALSE).settings = settings

-----------------------------------------------------------------------------
(* C13: a call with an empty or blank value and no reset is the read with  *)
(* the same role and scope, the absent scope included: it has the same     *)
(* answer and the same effect, stores no nickname and triggers no          *)
(* persistence call.                                                       *)
BlankValues == {"", " ", " \t\f\n﻿ "}

C13_BlankIsRead ==
    \A type \in Types : \A forContext \in {Null, CHAT, CHAR, GLOBAL} :
        LET read == Now(type, Null, forContext, FALSE)
        IN  \A value \in BlankValues :
            LET blank == Now(type, value, forContext, FALSE)
            IN  /\ blank = read
                /\ blank.error = NoError
                /\ blank.settings = settings
                /\ Has(chatMetadata, SETTNGS_NAME) =>
                      blank.chatMetadata = chatMetadata
                /\ StoredValues(blank.settings, blank.chatMetadata)
                     = StoredValues(settings, chatMetadata)
                /\ blank.saveChat = 0
                /\ blank.saveSettings = 0

\* the persona has a chat nickname and none at global level: the blank call
\* answers the chat nickname without a scope and at chat level, an absent
\* name at global level, and stores nothing there
C13_Witness ==
    /\ ChatNickname(chatMetadata, "user", charKey, user_avatar) = "N"
    /\ GlobalNickname(settings, "user", charKey, user_avatar) = Undefined
    /\ Now("user", " ", Null, FALSE).result = NicknameResult(CHAT, "N")
    /\ Now("user", "", CHAT, FALSE).result = NicknameResult(CHAT, "N")
    /\ Now("user", " ", GLOBAL, FALSE).result
         = NicknameResult(GLOBAL, Undefined)
    /\ Now("user", " ", GLOBAL, FALSE).settings = settings

-----------------------------------------------------------------------------
(* C14: a read never creates the conversation's nickname mapping: while    *)
(* the conversation metadata has no mapping, no read, with or without a    *)
(* scope and for either role, and no macro leaves it with one.             *)
C14_ReadsCreateNoMapping ==
    ~Has(chatMetadata, SETTNGS_NAME) =>
        \A type \in Types : \A forContext \in {Null, CHAT, CHAR, GLOBAL} :
            ~Has(Now(type, Null, forContext, FALSE).chatMetadata, SETTNGS_NAME)

-----------------------------------------------------------------------------
(* C15: every call that changes the conversation metadata triggers the     *)
(* conversation persist and every call that changes the account settings   *)
(* triggers the account persist; a set or reset that succeeds at chat      *)
(* level triggers the conversation persist only, at character or global    *)
(* level the account persist only.                                         *)
Persisted(o) ==
    /\ o.chatMetadata # chatMetadata => o.saveChat > 0
    /\ o.settings # settings => o.saveSettings > 0

C15_MutationsPersist ==
    /\ \A type \in Types : \A forContext \in {Null, CHAT, CHAR, GLOBAL} :
          \A value \in AnyValues : \A reset \in BOOLEAN :
              LET o == Now(type, value, forContext, reset)
              IN  /\ Persisted(o)
                  /\ (/\ o.error = NoError
                      /\ ~o.warning
                      /\ NonBlank(value) \/ reset) =>
                        IF forContext = CHAT
                        THEN o.saveChat = 1 /\ o.saveSettings = 0
                        ELSE o.saveChat = 0 /\ o.saveSettings = 1
    /\ \A oldAvatarKey \in Avatars : \A newAvatarKey \in Avatars :
          Persisted(characterRenamed(rev, settings, chatMetadata,
                                     oldAvatarKey, newAvatarKey))

-----------------------------------------------------------------------------
(* C16: a read with an explicit level consults only that level: it answers *)
(* what that level holds for the current identity, tagged with the level,  *)
(* and an absent name when it holds nothing, whatever the other levels     *)
(* hold; it never answers the default name or another level's nickname.    *)
C16_ExplicitReadOneLevel ==
    \A type \in Types : \A forContext \in {CHAT, CHAR, GLOBAL} :
        LET read == Now(type, Null, forContext, FALSE)
            stored == StoredAt(forContext, settings, chatMetadata,
                               type, charKey, user_avatar)
        IN  /\ read.error = NoError
            /\ read.result = NicknameResult(forContext, stored)
            /\ stored = Undefined =>
                  /\ OptionalName(read.result) = Undefined
                  /\ read.result.context # NONE

\* the persona has a chat and a global nickname and none at the level of
\* the character: the read at character level answers an absent name
C16_Witness ==
    /\ ChatNickname(chatMetadata, "user", charKey, user_avatar) = "N"
    /\ GlobalNickname(settings, "user", charKey, user_avatar) = "N"
    /\ CharNickname(settings, charKey, user_avatar) = Undefined
    /\ Now("user", Null, CHAR, FALSE).result = NicknameResult(CHAR, Undefined)
    /\ Now("user", Null, Null, FALSE).result = NicknameResult(CHAT, "N")

-----------------------------------------------------------------------------
(* C17: in every revision a set at chat level stores the nickname under    *)
(* the identity key of the role (the character key for role=char, the      *)
(* persona key for role=user) in the sub-map of the role (chars for        *)
(* role=char, personas for role=user), and a read at chat level looks it   *)
(* up there: a nickname set for role=user under one persona is not what a  *)
(* read answers while another persona is active.                           *)
C17_ChatKeyedByIdentity ==
    \A type \in Types :
        LET set == Now(type, "M", CHAT, FALSE)
        IN  /\ ChatNickname(set.chatMetadata, type, charKey, user_avatar) = "M"
            /\ type = "user" =>
                 \A other \in Personas \ {user_avatar} :
                    \A forContext \in {Null, CHAT} :
                        handleNickname(rev, set.settings, set.chatMetadata,
                                       charKey, other,
                                       "user", Null, forContext, FALSE).result.name
                          # "M"

-----------------------------------------------------------------------------
(* C18: account-level writes are durable, on a first run too: the settings *)
(* a set at global or character level has changed are what the host writes *)
(* when the persist it triggered runs, and after a reload of what was      *)
(* written a read at that level answers the nickname.                      *)
C18_AccountWritesDurable ==
    \A type \in Types : \A forContext \in ValidContexts(type) \ {CHAT} :
        LET set == Now(type, "M", forContext, FALSE)
            saved == SavedSettings(extension_settings, set.settings)
            reloaded == loadNicknameSettings(saved).settings
        IN  /\ set.saveSettings > 0
            /\ Has(saved, SETTNGS_NAME)
            /\ saved[SETTNGS_NAME] = set.settings
            /\ StoredAt(forContext, reloaded, chatMetadata,
                        type, charKey, user_avatar) = "M"

-----------------------------------------------------------------------------
(* C19: with any of the sub-mappings missing in the stored settings, in a  *)
(* character's entry or in the conversation's mapping, every read, set,    *)
(* reset and rename completes without an error, and a set stores the       *)
(* nickname, creating what was missing.                                    *)
ValidCall(type, value, forContext, reset) ==
    /\ forContext = Null => value = Null /\ ~reset
    /\ forContext # Null => forContext \in ValidContexts(type)

C19_AbsentTolerant ==
    /\ \A type \in Types : \A forContext \in {Null, CHAT, CHAR, GLOBAL} :
          \A value \in {Null, "M"} : \A reset \in BOOLEAN :
              ValidCall(type, value, forContext, reset) =>
                  LET o == Now(type, value, forContext, reset)
                  IN  /\ o.error = NoError
                      /\ (value = "M" /\ ~reset) =>
                            StoredAt(forContext, o.settings, o.chatMetadata,
                                     type, charKey, user_avatar) = "M"
    /\ \A oldAvatarKey \in Avatars : \A newAvatarKey \in Avatars :
          characterRenamed(rev, settings, chatMetadata,
                           oldAvatarKey, newAvatarKey).error = NoError

-----------------------------------------------------------------------------
(* C20: no mapping at any level holds an entry under the key an absent     *)
(* character key turns into; with no character active, a set that needs    *)
(* the character key (role=char at global or chat level, role=user at      *)
(* character level) stores nothing and is reported as a warning, and a     *)
(* read at such a level answers an absent name.                            *)
NeedsCharKey == {<<"char", GLOBAL>>, <<"char", CHAT>>, <<"user", CHAR>>}

NoUndefinedKey(s, cm) ==
    /\ ~Has(s.mappings.global.chars, Undefined)
    /\ ~Has(s.mappings.char, Undefined)
    /\ Has(cm, SETTNGS_NAME) => ~Has(cm[SETTNGS_NAME].chars, Undefined)

C20_NoUndefinedKey ==
    /\ NoUndefinedKey(settings, chatMetadata)
    /\ charKey = Undefined =>
          \A call \in NeedsCharKey :
              LET set == Now(call[1], "M", call[2], FALSE)
                  read == Now(call[1], Null, call[2], FALSE)
              IN  /\ set.error = NoError
                  /\ set.warning
                  /\ set.settings = settings
                  /\ StoredValues(set.settings, set.chatMetadata)
                       = StoredValues(settings, chatMetadata)
                  /\ read.error = NoError
                  /\ OptionalName(read.result) = Undefined

-----------------------------------------------------------------------------
(* C21: the command callbacks let no exception propagate; with an invalid  *)
(* scope, with a value or reset and no scope, and with role=char at scope  *)
(* char they return the empty string and leave the stored mappings as they *)
(* were; otherwise they return the name of the result, or the empty string *)
(* where the result is absent.                                             *)
Command(type, for, nickname) ==
    nicknameCallback(rev, settings, chatMetadata, charKey, user_avatar,
                     type, for, nickname)

\* a scope the specification takes for valid: absent, or one of the levels
IsValidScope(for) == for \in {Undefined, Null, "", GLOBAL, CHAR, CHAT}

\* the command asks for a set or a reset
IsWrite(nickname) ==
    nickname = RESET_NICKNAME_LABEL \/ NonBlank(nickname)

\* the failures the callbacks handle
IsHandledFailure(type, for, nickname) ==
    \/ ~IsValidScope(for)
    \/ ~Truthy(for) /\ IsWrite(nickname)
    \/ type = "char" /\ for = CHAR /\ IsWrite(nickname)

C21_CommandFacade ==
    \A type \in Types : \A for \in CommandScopes :
        \A nickname \in {Undefined, "", " ", " M ", RESET_NICKNAME_LABEL} :
            LET o == Command(type, for, nickname)
                call == Now(type, nickname, for,
                            nickname = RESET_NICKNAME_LABEL)
            IN  /\ o.error = NoError
                /\ IF IsHandledFailure(type, for, nickname)
                   THEN /\ o.returned = ""
                        /\ o.settings = settings
                        /\ o.chatMetadata = chatMetadata
                   ELSE /\ call.error = NoError
                        /\ o.returned = IF call.result.name = Undefined
                                        THEN "" ELSE call.result.name

-----------------------------------------------------------------------------
(* C22: a command given the value '#reset' resets at the given scope and   *)
(* never sets: no mapping at any level holds the string '#reset', in any   *)
(* state the commands lead to and after any further command with that      *)
(* value, which leaves no entry for the current identity at its level.     *)
C22_ResetSentinel ==
    /\ "#reset" \notin StoredValues(settings, chatMetadata)
    /\ \A type \in Types : \A for \in CommandScopes :
          LET o == Command(type, for, "#reset")
          IN  /\ "#reset" \notin StoredValues(o.settings, o.chatMetadata)
              /\ for \in ValidContexts(type) =>
                    /\ o.toastrError = NoError
                    /\ o.returned = ""
                    /\ StoredAt(for, o.settings, o.chatMetadata,
                                type, charKey, user_avatar) = Undefined

\* the persona has a chat nickname, and the command with '#reset' for chat
\* removes it
C22_Witness ==
    /\ ChatNickname(chatMetadata, "user", charKey, user_avatar) = "N"
    /\ LET o == Command("user", CHAT, "#reset")
       IN  /\ o.saveChat = 1
           /\ StoredValues(o.settings, o.chatMetadata)
                = StoredValues(settings, EmptyObject)

-----------------------------------------------------------------------------
(* C23: handling a rename triggers the account persist exactly once,       *)
(* whether or not an account mapping held an entry for oldKey, and the     *)
(* conversation persist exactly when the chars map of the loaded           *)
(* conversation held an entry for oldKey; a loaded conversation without a  *)
(* nickname mapping is left without one.                                   *)
C23_RenamePersistence ==
    \A oldAvatarKey \in Avatars : \A newAvatarKey \in Avatars :
        LET o == characterRenamed(rev, settings, chatMetadata,
                                  oldAvatarKey, newAvatarKey)
            held == /\ Has(chatMetadata, SETTNGS_NAME)
                    /\ Has(chatMetadata[SETTNGS_NAME].chars, oldAvatarKey)
        IN  /\ o.error = NoError
            /\ o.saveSettings = 1
            /\ o.saveChat = IF held THEN 1 ELSE 0
            /\ ~Has(chatMetadata, SETTNGS_NAME) =>
                  ~Has(o.chatMetadata, SETTNGS_NAME)

\* the loaded conversation holds a nickname of A and the account holds none:
\* the rename of A persists both, the rename of B the account only
C23_Witness ==
    /\ ChatNickname(chatMetadata, "char", "A", user_avatar) = "N"
    /\ ~Has(settings.mappings.global.chars, "A")
    /\ ~Has(settings.mappings.char, "A")
    /\ characterRenamed(rev, settings, chatMetadata, "A", "B").saveChat = 1
    /\ characterRenamed(rev, settings, chatMetadata, "A", "B").saveSettings = 1
    /\ characterRenamed(rev, settings, chatMetadata, "B", "A").saveChat = 0
    /\ characterRenamed(rev, settings, chatMetadata, "B", "A").saveSettings = 1

-----------------------------------------------------------------------------
(* C24: a rename whose oldKey equals its newKey loses nothing: global.chars, *)
(* the character-level map, the chars map of the loaded conversation and   *)
(* the conversation passed to the handler for past chats are what they     *)
(* were before.                                                            *)
C24_RenameToSameKey ==
    \A k \in Avatars :
        /\ LET o == characterRenamed(rev, settings, chatMetadata, k, k)
           IN  /\ o.settings = settings
               /\ o.chatMetadata = chatMetadata
        /\ \A chat \in PastChats :
              characterRenamedInPastChat(rev, settings, chatMetadata,
                                         chat, k, k).chat = chat

-----------------------------------------------------------------------------
(* C25: a successful set or reset for a role at an explicit level changes  *)
(* at most the entry addressed by the role, the level and the current      *)
(* identity keys: the entries of the two other levels, of the other role   *)
(* and of every other persona or character are what they were.             *)

\* the stored entries: level, sub-map or character key, inner key, nickname
Entries(s, cm) ==
    {<<GLOBAL, "personas", k, s.mappings.global.personas[k]>> :
        k \in DOMAIN s.mappings.global.personas}
    \cup {<<GLOBAL, "chars", k, s.mappings.global.chars[k]>> :
        k \in DOMAIN s.mappings.global.chars}
    \cup UNION {{<<CHAR, c, k, s.mappings.char[c].personas[k]>> :
                    k \in DOMAIN s.mappings.char[c].personas} :
                c \in DOMAIN s.mappings.char}
    \cup (IF ~Has(cm, SETTNGS_NAME) THEN {}
          ELSE {<<CHAT, "personas", k, cm[SETTNGS_NAME].personas[k]>> :
                   k \in DOMAIN cm[SETTNGS_NAME].personas}
               \cup {<<CHAT, "chars", k, cm[SETTNGS_NAME].chars[k]>> :
                   k \in DOMAIN cm[SETTNGS_NAME].chars})

\* where the nickname of the role is kept at a level for the identity (ck, pk)
Addressed(forContext, type, ck, pk) ==
    IF forContext = CHAR THEN <<CHAR, PropertyKey(ck), PropertyKey(pk)>>
    ELSE IF type = "char" THEN <<forContext, "chars", PropertyKey(ck)>>
    ELSE <<forContext, "personas", PropertyKey(pk)>>

\* the entries kept elsewhere than at the place
EntriesExcept(s, cm, place) ==
    {e \in Entries(s, cm) : <<e[1], e[2], e[3]>> # place}

\* the sub-maps of the characters other than ck at character level
OtherCharacters(s, ck) ==
    {<<c, s.mappings.char[c]>> :
        c \in (DOMAIN s.mappings.char) \ {PropertyKey(ck)}}

C25_SetResetFrame ==
    \A type \in Types : \A forContext \in ValidContexts(type) :
        \A call \in {<<"M", FALSE>>, <<Null, TRUE>>} :
            LET o == Now(type, call[1], forContext, call[2])
                place == Addressed(forContext, type, charKey, user_avatar)
            IN  (o.error = NoError /\ ~o.warning) =>
                  /\ EntriesExcept(o.settings, o.chatMetadata, place)
                       = EntriesExcept(settings, chatMetadata, place)
                  /\ OtherCharacters(o.settings, charKey)
                       = OtherCharacters(settings, charKey)
                  /\ o.settings.mappings.global.personas
                       # settings.mappings.global.personas =>
                         forContext = GLOBAL /\ type = "user"
                  /\ o.settings.mappings.global.chars
                       # settings.mappings.global.chars =>
                         forContext = GLOBAL /\ type = "char"
                  /\ o.settings.mappings.char # settings.mappings.char =>
                         forContext = CHAR
                  /\ o.chatMetadata # chatMetadata => forContext = CHAT

\* two entries are stored, one for the other persona at the same level: the
\* set for the current persona adds its entry and keeps both, the reset of
\* the current one removes it alone
C25_Witness ==
    /\ charKey = "A" /\ user_avatar = "P"
    /\ Entries(settings, chatMetadata)
         = {<<GLOBAL, "personas", "Q", "N">>, <<GLOBAL, "chars", "A", "N">>}
    /\ Entries(Now("user", "M", GLOBAL, FALSE).settings, chatMetadata)
         = Entries(settings, chatMetadata)
             \cup {<<GLOBAL, "personas", "P", "M">>}
    /\ Entries(Now("char", Null, GLOBAL, TRUE).settings, chatMetadata)
         = {<<GLOBAL, "personas", "Q", "N">>}

-----------------------------------------------------------------------------
(* C26: a nickname set at global or character level while one character    *)
(* and one persona are active is never returned by a read made while       *)
(* another character (for the parts keyed by character) or another persona *)
(* (for the parts keyed by persona) is active: such a read answers what it *)
(* answered before the set.                                                *)

\* the identity (ck, pk) is another one for the entry a set of the role at
\* the level writes under the current identity
OtherIdentity(forContext, type, ck, pk) ==
    IF forContext = CHAR THEN ck # charKey \/ pk # user_avatar
    ELSE IF type = "char" THEN ck # charKey
    ELSE pk # user_avatar

\* the answer of a read under the identity (ck, pk)
ReadAs(s, cm, ck, pk, type, forContext) ==
    LET o == handleNickname(rev, s, cm, ck, pk, type, Null, forContext, FALSE)
    IN  <<o.error, o.result>>

\* the roles whose reads use the entry: both at character level, where the
\* entry is keyed by the persona for either role
ReadTypes(forContext, type) == IF forContext = CHAR THEN Types ELSE {type}

C26_IdentityIsolation ==
    \A type \in Types : \A forContext \in ValidContexts(type) \ {CHAT} :
        LET set == Now(type, "M", forContext, FALSE)
        IN  (set.error = NoError /\ ~set.warning) =>
              \A ck \in Avatars \cup {Undefined} : \A pk \in Personas :
                  OtherIdentity(forContext, type, ck, pk) =>
                      \A readType \in ReadTypes(forContext, type) :
                          \A readContext \in {Null, forContext} :
                              LET before == ReadAs(settings, chatMetadata,
                                                   ck, pk, readType, readContext)
                                  after == ReadAs(set.settings, set.chatMetadata,
                                                  ck, pk, readType, readContext)
                              IN  /\ after = before
                                  /\ after[1] = NoError
                                  /\ OptionalName(after[2]) # "M"

\* character A and persona P are active and B holds a global nickname: after
\* the set for A at global level and for (A, P) at character level, A reads
\* the new nickname, B reads its own and persona Q falls through to the
\* default name
C26_Witness ==
    /\ charKey = "A" /\ user_avatar = "P"
    /\ GlobalNickname(settings, "char", "B", "P") = "N"
    /\ GlobalNickname(settings, "char", "A", "P") = Undefined
    /\ CharNickname(settings, "A", "Q") = Undefined
    /\ GlobalNickname(settings, "user", "A", "Q") = Undefined
    /\ ChatNickname(chatMetadata, "user", "A", "Q") = Undefined
    /\ LET set == Now("char", "M", GLOBAL, FALSE)
       IN  /\ ReadAs(set.settings, set.chatMetadata, "A", "P", "char", Null)
                = <<NoError, NicknameResult(GLOBAL, "M")>>
           /\ ReadAs(set.settings, set.chatMetadata, "B", "P", "char", Null)
                = <<NoError, NicknameResult(GLOBAL, "N")>>
    /\ LET set == Now("user", "M", CHAR, FALSE)
       IN  /\ ReadAs(set.settings, set.chatMetadata, "A", "P", "user", Null)
                = <<NoError, NicknameResult(CHAR, "M")>>
           /\ ReadAs(set.settings, set.chatMetadata, "A", "Q", "user", Null)
                = <<NoError, NicknameResult(NONE, name1)>>

-----------------------------------------------------------------------------
(* C27: after the load of any persisted object, mappings.char,             *)
(* mappings.global.personas and mappings.global.chars exist in the         *)
(* settings in memory, every map the persisted object holds is there with  *)
(* the entries it had, and with nothing persisted the settings are the     *)
(* empty default structure.                                                *)

\* the map a persisted object holds at a path, or the empty map
StoredMap(loadedSettings, path) ==
    IF ~Has(loadedSettings, "mappings") THEN EmptyObject
    ELSE IF Len(path) = 1
    THEN (IF Has(loadedSettings.mappings, path[1])
          THEN loadedSettings.mappings[path[1]] ELSE EmptyObject)
    ELSE IF ~Has(loadedSettings.mappings, path[1]) THEN EmptyObject
    ELSE IF Has(loadedSettings.mappings[path[1]], path[2])
    THEN loadedSettings.mappings[path[1]][path[2]] ELSE EmptyObject

\* objects the host may have read from its file: none for the extension,
\* partial ones without and with entries, and the settings of the state
PersistedSettings ==
    StoredSettings
    \cup {Put(EmptyObject, SETTNGS_NAME, loadedSettings) :
            loadedSettings \in
                {[mappings |-> [global |-> [chars |-> [A |-> "N"]]]],
                 [mappings |-> [global |-> [personas |-> [P |-> "N"]],
                                char |-> [B |-> [personas |-> [Q |-> "M"]]]]],
                 [mappings |-> [char |-> [A |-> [personas |-> [P |-> "N"]]]],
                  version |-> "1"],
                 settings}}

C27_LoadInitialises ==
    /\ loadNicknameSettings(EmptyObject).settings = DefaultSettings
    /\ \A stored \in PersistedSettings :
          LET loadedSettings == stored[SETTNGS_NAME]
              s == loadNicknameSettings(stored).settings
          IN  /\ Has(s, "mappings")
              /\ Has(s.mappings, "char")
              /\ Has(s.mappings, "global")
              /\ Has(s.mappings.global, "personas")
              /\ Has(s.mappings.global, "chars")
              /\ s.mappings.char = StoredMap(loadedSettings, <<"char">>)
              /\ s.mappings.global.personas
                   = StoredMap(loadedSettings, <<"global", "personas">>)
              /\ s.mappings.global.chars
                   = StoredMap(loadedSettings, <<"global", "chars">>)
              /\ \A k \in (DOMAIN loadedSettings) \ {"mappings"} :
                    Has(s, k) /\ s[k] = loadedSettings[k]

\* the settings were loaded from an object without mappings.global.chars
\* and hold the sub-map of a character without personas; a nickname of a
\* persona was set since; the load of these settings returns them as they are
C27_Witness ==
    /\ Has(settings.mappings.char, "A")
    /\ ~Has(settings.mappings.char["A"], "personas")
    /\ settings.mappings.global.chars = EmptyObject
    /\ settings.mappings.global.personas # EmptyObject
    /\ loadNicknameSettings(Put(EmptyObject, SETTNGS_NAME, settings)).settings
         = settings
    /\ loadNicknameSettings(
           Put(EmptyObject, SETTNGS_NAME,
               [mappings |-> [global |-> [chars |-> [A |-> "N"]]]])).settings
         = [mappings |-> [char |-> EmptyObject,
                          global |-> [personas |-> EmptyObject,
                                      chars |-> [A |-> "N"]]]]

-----------------------------------------------------------------------------
(* C28: the rename handler leaves unchanged every mapping keyed by persona *)
(* (global.personas, the personas map of the loaded conversation, the      *)
(* persona keys and values inside each per-character sub-map it moves) and *)
(* every entry keyed by a character other than oldKey and newKey.          *)

\* the entries of a map under the keys other than the two are the same
SameElsewhere(before, after, oldAvatarKey, newAvatarKey) ==
    \A k \in (DOMAIN before \cup DOMAIN after) \ {oldAvatarKey, newAvatarKey} :
        /\ k \in DOMAIN before /\ k \in DOMAIN after
        /\ after[k] = before[k]

\* the handler kept what is keyed by persona and what is keyed by other
\* characters
RenameFrame(o, oldAvatarKey, newAvatarKey) ==
    /\ o.settings.mappings.global.personas = settings.mappings.global.personas
    /\ Has(chatMetadata, SETTNGS_NAME) =>
          /\ Has(o.chatMetadata, SETTNGS_NAME)
          /\ o.chatMetadata[SETTNGS_NAME].personas
               = chatMetadata[SETTNGS_NAME].personas
          /\ SameElsewhere(chatMetadata[SETTNGS_NAME].chars,
                           o.chatMetadata[SETTNGS_NAME].chars,
                           oldAvatarKey, newAvatarKey)
    /\ Has(settings.mappings.char, oldAvatarKey) =>
          /\ Has(o.settings.mappings.char, newAvatarKey)
          /\ o.settings.mappings.char[newAvatarKey]
               = settings.mappings.char[oldAvatarKey]
    /\ SameElsewhere(settings.mappings.global.chars,
                     o.settings.mappings.global.chars,
                     oldAvatarKey, newAvatarKey)
    /\ SameElsewhere(settings.mappings.char, o.settings.mappings.char,
                     oldAvatarKey, newAvatarKey)

C28_RenameFrame ==
    \A oldAvatarKey \in Avatars : \A newAvatarKey \in Avatars \cup {"C"} :
        RenameFrame(characterRenamed(rev, settings, chatMetadata,
                                     oldAvatarKey, newAvatarKey),
                    oldAvatarKey, newAvatarKey)

-----------------------------------------------------------------------------
(* C29: a call with no value and without reset, with or without a level    *)
(* and for either role, triggers neither persistence call and leaves every *)
(* stored nickname at every level as it was, so that the same read made    *)
(* again answers the same.                                                 *)
C29_ReadsArePure ==
    \A type \in Types : \A forContext \in {Null, CHAT, CHAR, GLOBAL} :
        \A value \in {Null} :
            LET read == Now(type, value, forContext, FALSE)
                again == handleNickname(rev, read.settings, read.chatMetadata,
                                        charKey, user_avatar,
                                        type, value, forContext, FALSE)
            IN  /\ read.error = NoError
                /\ read.saveChat = 0
                /\ read.saveSettings = 0
                /\ Entries(read.settings, read.chatMetadata)
                     = Entries(settings, chatMetadata)
                /\ again.error = NoError
                /\ again.result = read.result
                /\ again.saveChat = 0
                /\ again.saveSettings = 0
                /\ Entries(again.settings, again.chatMetadata)
                     = Entries(settings, chatMetadata)

\* the persona has a nickname in the conversation and the character one at
\* global level: the reads answer them, twice, and store nothing
C29_Witness ==
    /\ Entries(settings, chatMetadata)
         = {<<CHAT, "personas", PropertyKey(user_avatar), "N">>,
            <<GLOBAL, "chars", PropertyKey(charKey), "N">>}
    /\ LET read == Now("user", Null, Null, FALSE)
       IN  /\ read.result = NicknameResult(CHAT, "N")
           /\ read.saveChat = 0 /\ read.saveSettings = 0
           /\ handleNickname(rev, read.settings, read.chatMetadata,
                             charKey, user_avatar,
                             "user", Null, Null, FALSE).result = read.result
    /\ Now("char", Null, Null, FALSE).result = NicknameResult(GLOBAL, "N")
    /\ Now("char", Null, CHAT, FALSE).result = NicknameResult(CHAT, Undefined)
    /\ Now("char", Null, CHAT, FALSE).settings = settings

-----------------------------------------------------------------------------
(* C30: the handler of a rename in a past conversation does nothing and    *)
(* does not throw when the list it is passed is empty, when its first      *)
(* element has no chat_metadata, when chat_metadata is not an object, and  *)
(* when the metadata holds no nickname mapping.                            *)

\* a chat whose second message alone carries a nickname mapping
ChatWithLaterMapping ==
    <<Message("undefined", EmptyObject),
      Message("object", Put(EmptyObject, SETTNGS_NAME,
                            NicknameMappings(EmptyObject,
                                             Put(EmptyObject, "A", "N"))))>>

\* the chats without a nickname mapping in the metadata of their first message
ChatsWithoutMapping ==
    {chat \in PastChats \cup {ChatWithLaterMapping,
                              <<Message("object", Put(EmptyObject, "note", "A"))>>} :
        \/ Len(chat) = 0
        \/ chat[1].metadataType # "object"
        \/ ~Has(chat[1].chat_metadata, SETTNGS_NAME)}

C30_PastChatNoOp ==
    \A chat \in ChatsWithoutMapping :
        \A oldAvatarKey \in Avatars : \A newAvatarKey \in Avatars :
            LET o == characterRenamedInPastChat(rev, settings, chatMetadata,
                         chat, oldAvatarKey, newAvatarKey)
            IN  /\ o.error = NoError
                /\ o.chat = chat
                /\ o.settings = settings
                /\ o.chatMetadata = chatMetadata
                /\ o.saveChat = 0
                /\ o.saveSettings = 0

\* the account and the loaded conversation hold nicknames of A; the handler
\* leaves the six chats without mapping alone and moves the entry of a chat
\* that has one
C30_Witness ==
    /\ Cardinality(ChatsWithoutMapping) = 6
    /\ GlobalNickname(settings, "char", "A", user_avatar) = "N"
    /\ ChatNickname(chatMetadata, "char", "A", user_avatar) = "N"
    /\ characterRenamedInPastChat(rev, settings, chatMetadata,
                                  ChatWithLaterMapping, "A", "B").chat
         = ChatWithLaterMapping
    /\ characterRenamedInPastChat(rev, settings, chatMetadata,
                                  <<>>, "A", "B").error = NoError
    /\ \E chat \in PastChats \ ChatsWithoutMapping :
          characterRenamedInPastChat(rev, settings, chatMetadata,
                                     chat, "A", "B").chat # chat

====
